---- MODULE Spec2Model ----
(***************************************************************************)
(* Step forms of the housing intake questionnaire: criminal history,       *)
(* substance-use history, children, financial information and health.      *)
(* One step is mounted at a time; its draft is the value store of its      *)
(* useForm, errors is formState.errors, and every action is one event      *)
(* handler of the step run to completion (effects included).               *)
(***************************************************************************)
EXTENDS Integers, Sequences, FiniteSets, TLC

VARIABLES
    step,         \* which step form is mounted
    data,         \* what the host holds for the step when it mounts it
    defaults,     \* the defaultValues the step's useForm was given at mount
    draft,        \* the form values of the mounted step
    errors,       \* formState.errors: set of [field, index, message]
    isSubmitted,  \* formState.isSubmitted
    calls,        \* callbacks invoked by the most recent handler, in order
    emitted,      \* <<slice>> handed to updateData by the most recent handler, else <<>>
    last,         \* kind of the most recent handler: mount, edit (a field event),
                  \* append, remove, reset or submit
    outcome,      \* what handleSubmit decided in the most recent handler
    added         \* history of the field array: for each entry of the list, its rank
                  \* among the entries still in the list in the order they were added

vars == <<step, data, defaults, draft, errors, isSubmitted, calls, emitted, last, outcome, added>>

-----------------------------------------------------------------------------
(* Bounds of the model *)

MaxCharges == 1
MaxIllnesses == 2
MaxDirty == 3
MaxEdited == 1

\* errors a form holds before its first submit (put there by blur events)
MaxBlurErrors == 1
MaxIllnessDirty == 4
MaxScalars == 1
MaxSources == 2

\* only the first income sources of the list have their checkbox toggled
MaxSourcePosition == 3
MaxLen == 5

(* Constants of the program *)

MaxChildren == 5

-----------------------------------------------------------------------------
(* Text values: a string is a sequence of one-character strings. *)

Undefined == <<"undefined">>

Digits == {"0", "1", "2", "3", "4", "5", "6", "7", "8", "9"}

IsSpace(c) == c = " "

\* String.prototype.trim
Trim(s) ==
    LET nonSpace == {i \in 1..Len(s) : ~IsSpace(s[i])}
    IN  IF nonSpace = {} THEN <<>>
        ELSE LET lo == CHOOSE i \in nonSpace : \A j \in nonSpace : i <= j
                 hi == CHOOSE i \in nonSpace : \A j \in nonSpace : j <= i
             IN  SubSeq(s, lo, hi)

\* the test `!v || v.trim() === ''` of the schema refinements
IsBlank(v) == v = Undefined \/ v = <<>> \/ Trim(v) = <<>>

\* an input element shows '' for a value that is not yet in the store
InputValue(v) == IF v = Undefined THEN <<>> ELSE v

Err(field, index, message) == [field |-> field, index |-> index, message |-> message]

Texts == {<<>>, <<"a">>}

\* the values typed where the schema trims before it tests
TrimmedTexts == {<<>>, <<" ">>, <<"a">>}

\* what an <input type="date"> can hold: '' or a date
DateTexts == {<<>>, <<"2", "0", "2", "0", "-", "0", "1", "-", "3", "1">>}

\* mutant: the last entry goes, whatever the position asked for
RemoveLast(s, i) == SubSeq(s, 1, Len(s) - 1)

\* what remove(i) leaves of a field array (i counted from 1)
RemoveAt(s, i) == SubSeq(s, 1, i - 1) \o SubSeq(s, i + 1, Len(s))

\* errors of a field array after remove(index): the entry's errors go, later ones shift down
RemoveErrorsAt(errs, index) ==
    {e \in errs : e.index < index}
        \cup {Err(e.field, e.index - 1, e.message) : e \in {x \in errs : x.index > index}}

\* option values of the host's slice: <<>> is an absent field, <<v>> a present one
OrElse(opt, default) == IF opt = <<>> THEN default ELSE opt[1]

-----------------------------------------------------------------------------
(* Validation modes of useForm *)

\* mutant: the health form validates on blur as well
ModeHealthOnBlur(s) ==
    CASE s = "criminal"  -> "onBlur"
      [] s = "substance" -> "onBlur"
      [] s = "children"  -> "onChange"
      [] s = "financial" -> "onBlur"
      [] s = "health"    -> "onBlur"

Mode(s) ==
    CASE s = "criminal"  -> "onBlur"
      [] s = "substance" -> "onBlur"
      [] s = "children"  -> "onChange"
      [] s = "financial" -> "onBlur"
      [] s = "health"    -> "onSubmit"

\* a change event validates the changed field in mode onChange, and in every
\* mode once the form was submitted (reValidateMode is left at onChange)
ValidatesOnChange == Mode(step) = "onChange" \/ isSubmitted

\* a blur event validates the blurred field in mode onBlur until the form is
\* submitted; afterwards (reValidateMode onChange) and in the other modes it does not
ValidatesOnBlur == Mode(step) = "onBlur" /\ ~isSubmitted

\* the error of one field replaced by what a validation run says about it
Revalidated(errs, field, index, fresh) ==
    {e \in errs : ~(e.field = field /\ e.index = index)}
        \cup {e \in fresh : e.field = field /\ e.index = index}

-----------------------------------------------------------------------------
(* Criminal history *)

initialCharge ==
    [personName |-> <<>>, charge |-> <<>>, dateOfOffense |-> <<>>, outcome |-> <<>>,
     areTheyOnProbation |-> "No", probationOfficer |-> <<>>, lengthOfProbation |-> <<>>,
     startDate |-> <<>>, endDate |-> <<>>]

ChargeTextFields ==
    {"personName", "charge", "dateOfOffense", "outcome",
     "probationOfficer", "lengthOfProbation", "startDate", "endDate"}

ProbationDetailFields == {"probationOfficer", "lengthOfProbation", "startDate", "endDate"}

\* mutant: the outcome input is registered without a rule
ChargeRequiredMessageNoOutcome(field) ==
    CASE field = "personName"       -> "Person Name is required."
      [] field = "charge"           -> "Charge is required."
      [] field = "probationOfficer" -> "Probation Officer is required."
      [] OTHER                      -> ""

\* the rules given to register(): field -> required message
ChargeRequiredMessage(field) ==
    CASE field = "personName"       -> "Person Name is required."
      [] field = "charge"           -> "Charge is required."
      [] field = "outcome"          -> "Outcome is required."
      [] field = "probationOfficer" -> "Probation Officer is required."
      [] OTHER                      -> ""

\* mutant: the charges block is rendered whatever the answer is
ChargesVisibleAlways(d) == d.hasCriminalOffense \in {"Yes", "No"}

\* the charges block is rendered only while the answer is 'Yes'
ChargesVisible(d) == d.hasCriminalOffense = "Yes"

\* mutant: the probation details are rendered whatever areTheyOnProbation is
ChargeFieldMountedAlways(d, i, field) ==
    /\ ChargesVisible(d)
    /\ i \in 1..Len(d.charges)
    /\ field \in ChargeTextFields

\* the inputs of charge i that are rendered, hence registered and mounted
ChargeFieldMounted(d, i, field) ==
    /\ ChargesVisible(d)
    /\ i \in 1..Len(d.charges)
    /\ field \in ChargeTextFields
    /\ field \in ProbationDetailFields => d.charges[i].areTheyOnProbation = "Yes"

\* built-in validation: every mounted input with a required rule and value ''
CriminalValidate(d) ==
    {Err(f, i - 1, ChargeRequiredMessage(f)) :
        <<i, f>> \in {p \in (1..Len(d.charges)) \X ChargeTextFields :
                        /\ ChargeFieldMounted(d, p[1], p[2])
                        /\ ChargeRequiredMessage(p[2]) # ""
                        /\ d.charges[p[1]][p[2]] = <<>>}}

\* the slices the host may hand to the step
SeedCharge ==
    [initialCharge EXCEPT !.personName = <<"a">>, !.charge = <<"a">>, !.outcome = <<"a">>]

SeedChargeOnProbation ==
    [SeedCharge EXCEPT !.areTheyOnProbation = "Yes", !.probationOfficer = <<"a">>]

HostSlice(has, charges, willing) ==
    [hasCriminalOffense |-> has, charges |-> charges, isWillingToBackgroundCheck |-> willing]

CriminalHostSlices ==
    {HostSlice(<<>>, <<>>, <<>>),
     HostSlice(<<"No">>, << <<>> >>, <<"No">>),
     HostSlice(<<"Yes">>, <<>>, <<>>),
     HostSlice(<<"Yes">>, << <<initialCharge>> >>, <<>>),
     HostSlice(<<"Yes">>, << <<SeedCharge>> >>, <<"Yes">>),
     HostSlice(<<"No">>, << <<SeedCharge, SeedChargeOnProbation>> >>, <<"Yes">>),
     HostSlice(<<"Yes">>, << <<SeedChargeOnProbation, SeedCharge, SeedCharge>> >>, <<"No">>)}

CriminalDefaultValues(slice) ==
    [hasCriminalOffense |-> OrElse(slice.hasCriminalOffense, "No"),
     charges |-> OrElse(slice.charges, <<>>),
     isWillingToBackgroundCheck |-> OrElse(slice.isWillingToBackgroundCheck, "No")]

\* the charge text fields whose value differs from the default value (dirtyFields)
CriminalDirty(d) ==
    {p \in (1..Len(d.charges)) \X ChargeTextFields :
        d.charges[p[1]][p[2]] #
            (IF p[1] <= Len(defaults.charges) THEN defaults.charges[p[1]] ELSE initialCharge)[p[2]]}

\* mutant: the manual list check is left out
CriminalOnSubmitNoCheck(d) == [calls |-> <<"updateData", "nextStep">>, emitted |-> <<d>>]

\* onSubmit of the step: the manual list check, then update and advance
CriminalOnSubmit(d) ==
    IF d.hasCriminalOffense = "Yes" /\ Len(d.charges) = 0
    THEN [calls |-> <<"alert">>, emitted |-> <<>>]
    ELSE [calls |-> <<"updateData", "nextStep">>, emitted |-> <<d>>]

ChargeFieldValues(field) ==
    IF field \in {"dateOfOffense", "startDate", "endDate"} THEN DateTexts ELSE Texts

-----------------------------------------------------------------------------
(* What every handler does to the record of the most recent handler *)

HandledAs(kind) ==
    /\ last' = kind
    /\ outcome' = "none"
    /\ calls' = <<>>
    /\ emitted' = <<>>
    /\ UNCHANGED <<step, data, defaults>>

\* a field event: the field array keeps its entries
Handled == HandledAs("edit") /\ UNCHANGED added

\* mutant: onSubmit is called whatever the validation found
HandleSubmitAlways(fresh, onValid) ==
    /\ errors' = fresh
    /\ isSubmitted' = TRUE
    /\ last' = "submit"
    /\ outcome' = IF fresh = {} THEN "valid" ELSE "invalid"
    /\ calls' = onValid.calls
    /\ emitted' = onValid.emitted
    /\ UNCHANGED <<step, data, defaults, draft, added>>

\* onBlur of an input: the blurred field is validated when the mode asks for it;
\* no value changes
FieldBlurred(field, index, fresh) ==
    /\ errors' = IF ValidatesOnBlur THEN Revalidated(errors, field, index, fresh) ELSE errors
    /\ isSubmitted \/ Cardinality(errors') <= MaxBlurErrors
    /\ UNCHANGED <<draft, isSubmitted>>
    /\ Handled

\* mutant: a submit keeps the errors it finds in the form state and is blocked by them
HandleSubmitKeepsErrors(fresh, onValid) ==
    /\ errors' = errors \cup fresh
    /\ isSubmitted' = TRUE
    /\ last' = "submit"
    /\ IF errors \cup fresh = {}
       THEN /\ outcome' = "valid"
            /\ calls' = onValid.calls
            /\ emitted' = onValid.emitted
       ELSE /\ outcome' = "invalid"
            /\ calls' = <<>>
            /\ emitted' = <<>>
    /\ UNCHANGED <<step, data, defaults, draft, added>>

\* form.handleSubmit(onSubmit): validate everything, call onSubmit only without errors
HandleSubmit(fresh, onValid) ==
    /\ errors' = fresh
    /\ isSubmitted' = TRUE
    /\ last' = "submit"
    /\ IF fresh = {}
       THEN /\ outcome' = "valid"
            /\ calls' = onValid.calls
            /\ emitted' = onValid.emitted
       ELSE /\ outcome' = "invalid"
            /\ calls' = <<>>
            /\ emitted' = <<>>
    /\ UNCHANGED <<step, data, defaults, draft, added>>

-----------------------------------------------------------------------------
(* The entries of useFieldArray: each gets its key when it enters the list and
   keeps it; added holds the order in which the surviving keys were made *)

FirstKeys(n) == [k \in 1..n |-> k]

\* the ranks of the stamps of seq, 1 for the oldest
Ranks(seq) == [k \in DOMAIN seq |-> Cardinality({j \in DOMAIN seq : seq[j] <= seq[k]})]

\* mutant: the new entry goes to the front of the list
PrependKey(a) == <<Len(a) + 1>> \o a

\* append(): the new entry is the youngest and goes to the end
AppendKey(a) == Append(a, Len(a) + 1)

\* remove(index): the key at the position goes with its entry
RemoveKey(a, i) == Ranks(RemoveAt(a, i))

-----------------------------------------------------------------------------
(* Criminal history: handlers *)

\* mutant: answering 'No' empties the list of charges
SetHasCriminalOffenseClearing(v) ==
    /\ step = "criminal"
    /\ v # draft.hasCriminalOffense
    /\ draft' = [draft EXCEPT !.hasCriminalOffense = v,
                              !.charges = IF v = "No" THEN <<>> ELSE @]
    /\ added' = IF v = "No" THEN <<>> ELSE added
    /\ UNCHANGED <<errors, isSubmitted>>
    /\ HandledAs("edit")

SetHasCriminalOffense(v) ==
    /\ step = "criminal"
    /\ v # draft.hasCriminalOffense
    /\ draft' = [draft EXCEPT !.hasCriminalOffense = v]
    /\ UNCHANGED <<errors, isSubmitted>>
    /\ Handled

SetWillingToBackgroundCheck(v) ==
    /\ step = "criminal"
    /\ v # draft.isWillingToBackgroundCheck
    /\ draft' = [draft EXCEPT !.isWillingToBackgroundCheck = v]
    /\ UNCHANGED <<errors, isSubmitted>>
    /\ Handled

AppendCharge ==
    /\ step = "criminal"
    /\ ChargesVisible(draft)
    /\ Len(draft.charges) < MaxCharges
    /\ draft' = [draft EXCEPT !.charges = Append(@, initialCharge)]
    /\ added' = AppendKey(added)
    /\ UNCHANGED <<errors, isSubmitted>>
    /\ HandledAs("append")

RemoveCharge(i) ==
    /\ step = "criminal"
    /\ ChargesVisible(draft)
    /\ i \in 1..Len(draft.charges)
    /\ draft' = [draft EXCEPT !.charges = RemoveAt(@, i)]
    /\ added' = RemoveKey(added, i)
    /\ errors' = RemoveErrorsAt(errors, i - 1)
    /\ UNCHANGED isSubmitted
    /\ HandledAs("remove")

EditChargeField(i, field, v) ==
    /\ step = "criminal"
    /\ i <= MaxEdited
    /\ ChargeFieldMounted(draft, i, field)
    /\ v \in ChargeFieldValues(field)
    /\ v # draft.charges[i][field]
    /\ draft' = [draft EXCEPT !.charges[i][field] = v]
    /\ Cardinality(CriminalDirty(draft')) <= MaxDirty
    /\ errors' = IF ValidatesOnChange
                 THEN Revalidated(errors, field, i - 1, CriminalValidate(draft'))
                 ELSE errors
    /\ UNCHANGED isSubmitted
    /\ Handled

BlurChargeField(i, field) ==
    /\ step = "criminal"
    /\ i <= MaxEdited
    /\ ChargeFieldMounted(draft, i, field)
    /\ FieldBlurred(field, i - 1, CriminalValidate(draft))

\* mutant: the radio of one charge sets the answer of every charge
SetAreTheyOnProbationAll(i, v) ==
    /\ step = "criminal"
    /\ ChargesVisible(draft)
    /\ i \in 1..Len(draft.charges)
    /\ v # draft.charges[i].areTheyOnProbation
    /\ draft' = [draft EXCEPT
                    !.charges = [k \in 1..Len(@) |-> [@[k] EXCEPT !.areTheyOnProbation = v]]]
    /\ UNCHANGED <<errors, isSubmitted>>
    /\ Handled

SetAreTheyOnProbation(i, v) ==
    /\ step = "criminal"
    /\ ChargesVisible(draft)
    /\ i \in 1..Len(draft.charges)
    /\ v # draft.charges[i].areTheyOnProbation
    /\ draft' = [draft EXCEPT !.charges[i].areTheyOnProbation = v]
    /\ UNCHANGED <<errors, isSubmitted>>
    /\ Handled

\* mutant: the values the form was mounted with are handed to the host
SubmitCriminalDefaults ==
    /\ step = "criminal"
    /\ HandleSubmit(CriminalValidate(draft), CriminalOnSubmit(defaults))

SubmitCriminal ==
    /\ step = "criminal"
    /\ HandleSubmit(CriminalValidate(draft), CriminalOnSubmit(draft))

\* the positions of the rendered charge blocks
ChargePositions == IF step = "criminal" THEN 1..Len(draft.charges) ELSE {}

CriminalNext ==
    \/ \E v \in {"Yes", "No"} : SetHasCriminalOffense(v)
    \/ \E v \in {"Yes", "No"} : SetWillingToBackgroundCheck(v)
    \/ AppendCharge
    \/ \E i \in ChargePositions : RemoveCharge(i)
    \/ \E i \in ChargePositions, field \in ChargeTextFields, v \in Texts \cup DateTexts :
            EditChargeField(i, field, v)
    \/ \E i \in ChargePositions, field \in ChargeTextFields : BlurChargeField(i, field)
    \/ \E i \in ChargePositions, v \in {"Yes", "No"} : SetAreTheyOnProbation(i, v)
    \/ SubmitCriminal

\* the list of a draft of step s
ListOf(s, d) ==
    CASE s = "criminal" -> d.charges
      [] s = "children" -> d.children
      [] s = "health"   -> d.chronicIllnesses
      [] OTHER          -> <<>>

Mounted(s, slice, d) ==
    /\ step = s
    /\ data = slice
    /\ defaults = d
    /\ draft = d
    /\ added = FirstKeys(Len(ListOf(s, d)))
    /\ errors = {}
    /\ isSubmitted = FALSE
    /\ calls = <<>>
    /\ emitted = <<>>
    /\ last = "mount"
    /\ outcome = "none"

CriminalInit ==
    \E slice \in CriminalHostSlices : Mounted("criminal", slice, CriminalDefaultValues(slice))

SpecCriminal == CriminalInit /\ [][CriminalNext]_vars

-----------------------------------------------------------------------------
(* Substance-use history *)

SubstanceRadios == {"hasSubstanceHistory", "isCleanAndSober", "hasInpatientTreatment", "hasSponsor"}

SubstanceTextFields ==
    {"substances", "lastUseMonth", "lastUseYear", "sobrietyPlan", "inpatientDetails"}

SubstanceDefaultValues ==
    [hasSubstanceHistory |-> "No", substances |-> Undefined, lastUseMonth |-> Undefined,
     lastUseYear |-> Undefined, isCleanAndSober |-> "No", sobrietyPlan |-> Undefined,
     hasInpatientTreatment |-> "No", inpatientDetails |-> Undefined, hasSponsor |-> "No"]

\* mutant: the sobriety plan is rendered under the sponsor radio
SubstanceGateSponsor(field) ==
    CASE field \in {"substances", "lastUseMonth", "lastUseYear"} -> "hasSubstanceHistory"
      [] field = "sobrietyPlan"     -> "hasSponsor"
      [] field = "inpatientDetails" -> "hasInpatientTreatment"

\* the watched radio whose 'Yes' renders the input of a text field
SubstanceGate(field) ==
    CASE field \in {"substances", "lastUseMonth", "lastUseYear"} -> "hasSubstanceHistory"
      [] field = "sobrietyPlan"     -> "isCleanAndSober"
      [] field = "inpatientDetails" -> "hasInpatientTreatment"

SubstanceFieldVisible(d, field) == d[SubstanceGate(field)] = "Yes"

\* mutant: the in-patient details are tested under the wrong radio
SubstanceValidateWrongGate(d) ==
    (IF d.hasSubstanceHistory = "Yes"
     THEN (IF IsBlank(d.substances)
           THEN {Err("substances", -1, "Please list the substance(s).")} ELSE {})
          \cup (IF IsBlank(d.lastUseMonth)
                THEN {Err("lastUseMonth", -1, "Month is required.")} ELSE {})
          \cup (IF IsBlank(d.lastUseYear)
                THEN {Err("lastUseYear", -1, "Year is required.")} ELSE {})
     ELSE {})
    \cup (IF d.hasSponsor = "Yes" /\ IsBlank(d.inpatientDetails)
          THEN {Err("inpatientDetails", -1, "Please provide when and where treatment occurred.")}
          ELSE {})
    \cup (IF d.isCleanAndSober = "Yes" /\ IsBlank(d.sobrietyPlan)
          THEN {Err("sobrietyPlan", -1, "Please describe your plan to stay clean and sober.")}
          ELSE {})

\* the refinement of the schema, issue by issue
SubstanceValidate(d) ==
    (IF d.hasSubstanceHistory = "Yes"
     THEN (IF IsBlank(d.substances)
           THEN {Err("substances", -1, "Please list the substance(s).")} ELSE {})
          \cup (IF IsBlank(d.lastUseMonth)
                THEN {Err("lastUseMonth", -1, "Month is required.")} ELSE {})
          \cup (IF IsBlank(d.lastUseYear)
                THEN {Err("lastUseYear", -1, "Year is required.")} ELSE {})
     ELSE {})
    \cup (IF d.hasInpatientTreatment = "Yes" /\ IsBlank(d.inpatientDetails)
          THEN {Err("inpatientDetails", -1, "Please provide when and where treatment occurred.")}
          ELSE {})
    \cup (IF d.isCleanAndSober = "Yes" /\ IsBlank(d.sobrietyPlan)
          THEN {Err("sobrietyPlan", -1, "Please describe your plan to stay clean and sober.")}
          ELSE {})

\* a registered input that mounts with no value in the store stores its own ''
SubstanceRegistered(d) ==
    [f \in DOMAIN d |->
        IF f \in SubstanceTextFields /\ SubstanceFieldVisible(d, f) /\ d[f] = Undefined
        THEN <<>> ELSE d[f]]

\* an <input type="number"> holds '' or digits
YearTexts == {<<>>, <<"2", "3">>, <<"2", "0", "2", "3">>}

SubstanceFieldValues(field) == IF field = "lastUseYear" THEN YearTexts ELSE TrimmedTexts

SubstanceDirty(d) == {f \in SubstanceTextFields : InputValue(d[f]) # <<>>}

\* onSubmit of the steps that only show a toast
ToastOnSubmit == [calls |-> <<"toast">>, emitted |-> <<>>]

SetSubstanceRadio(name, v) ==
    /\ step = "substance"
    /\ name \in SubstanceRadios
    /\ v # draft[name]
    /\ draft' = SubstanceRegistered([draft EXCEPT ![name] = v])
    /\ errors' = Revalidated(errors, name, -1, SubstanceValidate([draft EXCEPT ![name] = v]))
    /\ UNCHANGED isSubmitted
    /\ Handled

EditSubstanceField(field, v) ==
    /\ step = "substance"
    /\ field \in SubstanceTextFields
    /\ SubstanceFieldVisible(draft, field)
    /\ v \in SubstanceFieldValues(field)
    /\ v # draft[field]
    /\ draft' = [draft EXCEPT ![field] = v]
    /\ Cardinality(SubstanceDirty(draft')) <= MaxDirty
    /\ errors' = IF ValidatesOnChange
                 THEN Revalidated(errors, field, -1, SubstanceValidate(draft'))
                 ELSE errors
    /\ UNCHANGED isSubmitted
    /\ Handled

BlurSubstanceField(field) ==
    /\ step = "substance"
    /\ field \in SubstanceTextFields
    /\ SubstanceFieldVisible(draft, field)
    /\ FieldBlurred(field, -1, SubstanceValidate(draft))

SubmitSubstance ==
    /\ step = "substance"
    /\ HandleSubmit(SubstanceValidate(draft), ToastOnSubmit)

SubstanceNext ==
    \/ \E name \in SubstanceRadios, v \in {"Yes", "No"} : SetSubstanceRadio(name, v)
    \/ \E field \in SubstanceTextFields, v \in TrimmedTexts \cup YearTexts :
            EditSubstanceField(field, v)
    \/ \E field \in SubstanceTextFields : BlurSubstanceField(field)
    \/ SubmitSubstance

\* what the host holds for the step; the component takes no props, so the slice
\* never reaches it and one slice that differs from the defaults is enough
SubstanceHostSlices == {[hasSubstanceHistory |-> <<"Yes">>]}

SubstanceInit == \E slice \in SubstanceHostSlices : Mounted("substance", slice, SubstanceDefaultValues)

SpecSubstance == SubstanceInit /\ [][SubstanceNext]_vars

-----------------------------------------------------------------------------
(* Children *)

genderValues == {"male", "female", "other"}

\* the entry the Add Child button appends
defaultChild ==
    [name |-> <<>>, birthday |-> Undefined, ssn |-> <<>>, gender |-> "", race |-> <<>>,
     living |-> FALSE]

ChildrenDefaultValues == [children |-> <<>>]

BirthdayValues == {Undefined} \cup (DateTexts \ {<<>>})

\* mutant: the expression without its anchors' length test and hyphens
SsnRegexDigitsOnly(s) ==
    /\ Len(s) >= 9
    /\ \A i \in 1..Len(s) : s[i] \in Digits \cup {"-"}

\* /^\d{3}-\d{2}-\d{4}$/
SsnRegexTest(s) ==
    /\ Len(s) = 11
    /\ \A i \in 1..11 : IF i \in {4, 7} THEN s[i] = "-" ELSE s[i] \in Digits

SsnTexts ==
    {<<>>,
     <<"1", "2", "3", "-", "4", "5", "-", "6", "7", "8", "9">>,
     <<"1", "2", "3", "4", "5", "6", "7", "8", "9">>}

\* z.coerce.date(): new Date(undefined) is an invalid date
CoercesToDate(v) == v # Undefined

\* z.string().min(1) on the value of a select
MinOne(v) == v # ""

\* the issues of the schema for the entry at position i
ChildIssues(child, i) ==
    (IF CoercesToDate(child.birthday) THEN {} ELSE {Err("birthday", i - 1, "Invalid date")})
    \cup (IF SsnRegexTest(child.ssn) THEN {} ELSE {Err("ssn", i - 1, "Invalid")})
    \cup (IF MinOne(child.gender) THEN {}
          ELSE {Err("gender", i - 1, "String must contain at least 1 character(s)")})

ChildrenValidate(d) == UNION {ChildIssues(d.children[i], i) : i \in 1..Len(d.children)}

\* mutant: the button is disabled one entry too late
AddChildDisabledLate(d) == Len(d.children) > MaxChildren

\* disabled={fields.length >= 5}
AddChildDisabled(d) == Len(d.children) >= MaxChildren

ChildEditableFields == {"name", "birthday", "ssn", "gender", "race"}

ChildFieldValues(field) ==
    CASE field = "birthday" -> BirthdayValues
      [] field = "ssn"      -> SsnTexts
      [] field = "gender"   -> genderValues
      [] OTHER              -> Texts

ChildrenDirty(d) ==
    {p \in (1..Len(d.children)) \X ChildEditableFields :
        d.children[p[1]][p[2]] # defaultChild[p[2]]}

\* a click on the Add Child button; a disabled button runs no handler
AddChild ==
    /\ step = "children"
    /\ IF AddChildDisabled(draft)
       THEN UNCHANGED vars
       ELSE /\ draft' = [draft EXCEPT !.children = Append(@, defaultChild)]
            /\ added' = AppendKey(added)
            /\ UNCHANGED <<errors, isSubmitted>>
            /\ HandledAs("append")

EditChildField(i, field, v) ==
    /\ step = "children"
    /\ i \in 1..Len(draft.children)
    /\ i <= MaxEdited
    /\ field \in ChildEditableFields
    /\ v \in ChildFieldValues(field)
    /\ v # draft.children[i][field]
    /\ draft' = [draft EXCEPT !.children[i][field] = v]
    /\ Cardinality(ChildrenDirty(draft')) <= MaxDirty
    /\ errors' = IF ValidatesOnChange
                 THEN Revalidated(errors, field, i - 1, ChildrenValidate(draft'))
                 ELSE errors
    /\ UNCHANGED isSubmitted
    /\ Handled

\* the inputs of a child card that receive the Controller's onBlur
ChildBlurFields == {"name", "ssn", "race"}

BlurChildField(i, field) ==
    /\ step = "children"
    /\ i \in 1..Len(draft.children)
    /\ field \in ChildBlurFields
    /\ FieldBlurred(field, i - 1, ChildrenValidate(draft))

\* the values of the two items of the 'Is the child living with you?' radio group
livingRadioValues == {"default", "comfortable"}

\* mutant: the radio group writes its choice into the entry
SelectLivingRadioWrites(i, v) ==
    /\ step = "children"
    /\ i \in 1..Len(draft.children)
    /\ v \in livingRadioValues
    /\ draft' = [draft EXCEPT !.children[i].living = (v = "default")]
    /\ UNCHANGED <<errors, isSubmitted, added>>
    /\ HandledAs("radio")

\* a click on an item of the radio group: the Controller's field is not passed to
\* the group, so only the group's own selection changes
SelectLivingRadio(i, v) ==
    /\ step = "children"
    /\ i \in 1..Len(draft.children)
    /\ v \in livingRadioValues
    /\ UNCHANGED <<draft, errors, isSubmitted, added>>
    /\ HandledAs("radio")

\* form.reset(): values back to the defaultValues, form state cleared (Children and
\* Health render a Reset button)
ResetForm ==
    /\ step \in {"children", "health"}
    /\ draft' = defaults
    /\ added' = FirstKeys(Len(ListOf(step, defaults)))
    /\ errors' = {}
    /\ isSubmitted' = FALSE
    /\ HandledAs("reset")

SubmitChildren ==
    /\ step = "children"
    /\ HandleSubmit(ChildrenValidate(draft), ToastOnSubmit)

\* the positions of the rendered child cards
ChildPositions == IF step = "children" THEN 1..Len(draft.children) ELSE {}

ChildrenNext ==
    \/ AddChild
    \/ \E i \in ChildPositions, field \in ChildEditableFields,
           v \in Texts \cup BirthdayValues \cup SsnTexts :
            EditChildField(i, field, v)
    \/ \E i \in ChildPositions, v \in genderValues : EditChildField(i, "gender", v)
    \/ \E i \in ChildPositions, field \in ChildBlurFields : BlurChildField(i, field)
    \/ \E i \in ChildPositions, v \in livingRadioValues : SelectLivingRadio(i, v)
    \/ ResetForm
    \/ SubmitChildren

\* what the host holds for the step; the component takes no props, so the slice
\* never reaches it and one slice that differs from the defaults is enough
ChildrenHostSlices == {[children |-> << <<defaultChild>> >>]}

ChildrenInit == \E slice \in ChildrenHostSlices : Mounted("children", slice, ChildrenDefaultValues)

SpecChildren == ChildrenInit /\ [][ChildrenNext]_vars

-----------------------------------------------------------------------------
(* Financial information *)

incomeSources ==
    {"childSupport", "alimony", "wages", "stipends", "SSI", "TCA", "helpFromFamilyFriends",
     "Other"}

sourceLabel(name) ==
    CASE name = "childSupport"          -> "child support"
      [] name = "helpFromFamilyFriends" -> "help from family/friends"
      [] OTHER                          -> name

CheckedField(name) == name \o "_checked"
AmountField(name) == name \o "_amount"

AllDigits(s, from, to) == \A k \in from..to : k \in 1..Len(s) /\ s[k] \in Digits

\* positions reached from the positions of P by any number of (?:,?\d{3})
RECURSIVE GroupClosure(_, _)
GroupClosure(s, P) ==
    LET more == {p + 3 : p \in {q \in P : AllDigits(s, q, q + 2)}}
                \cup {p + 4 : p \in {q \in P : /\ q <= Len(s)
                                                 /\ s[q] = ","
                                                 /\ AllDigits(s, q + 1, q + 3)}}
    IN  IF more \subseteq P THEN P ELSE GroupClosure(s, P \cup more)

\* mutant: the expression without its decimal part
currencyRegexNoCents(s) ==
    LET afterDollar == {1} \cup (IF Len(s) >= 1 /\ s[1] = "$" THEN {2} ELSE {})
        afterSpaces == {q \in 1..(Len(s) + 1) :
                          \E p \in afterDollar :
                              p <= q /\ \A k \in p..(q - 1) : IsSpace(s[k])}
        afterHead   == {q \in 1..(Len(s) + 1) :
                          \E p \in afterSpaces :
                              (q - p) \in 1..3 /\ AllDigits(s, p, q - 1)}
    IN  (Len(s) + 1) \in GroupClosure(s, afterHead)

\* /^\$?\s*\d{1,3}(?:,?\d{3})*(?:\.\d{2})?$/ run over s; a position is the
\* index of the next character to read
currencyRegexTest(s) ==
    LET afterDollar == {1} \cup (IF Len(s) >= 1 /\ s[1] = "$" THEN {2} ELSE {})
        afterSpaces == {q \in 1..(Len(s) + 1) :
                          \E p \in afterDollar :
                              p <= q /\ \A k \in p..(q - 1) : IsSpace(s[k])}
        afterHead   == {q \in 1..(Len(s) + 1) :
                          \E p \in afterSpaces :
                              (q - p) \in 1..3 /\ AllDigits(s, p, q - 1)}
        afterGroups == GroupClosure(s, afterHead)
        afterCents  == afterGroups
                         \cup {p + 3 : p \in {q \in afterGroups : /\ q <= Len(s)
                                                                  /\ s[q] = "."
                                                                  /\ AllDigits(s, q + 1, q + 2)}}
    IN  (Len(s) + 1) \in afterCents

FinancialDefaultValues ==
    [f \in {"totalMonthlyIncome"}
            \cup {CheckedField(n) : n \in incomeSources}
            \cup {AmountField(n) : n \in incomeSources} |->
        IF f = "totalMonthlyIncome" THEN <<>>
        ELSE IF f \in {CheckedField(n) : n \in incomeSources} THEN FALSE
        ELSE Undefined]

\* mutant: an empty total is let through
TotalIncomeIssuesOptional(v) ==
    IF Len(v) < 1
    THEN {}
    ELSE IF ~currencyRegexTest(v)
    THEN {Err("totalMonthlyIncome", -1, "Must be a valid currency format (e.g., 1,500.00)")}
    ELSE {}

\* the issues of totalMonthlyIncome; the resolver keeps the first issue of a path
TotalIncomeIssues(v) ==
    IF Len(v) < 1
    THEN {Err("totalMonthlyIncome", -1, "Monthly household income is required.")}
    ELSE IF ~currencyRegexTest(v)
    THEN {Err("totalMonthlyIncome", -1, "Must be a valid currency format (e.g., 1,500.00)")}
    ELSE {}

\* mutant: the amount is tested whether or not the source is checked
SourceIssuesUnchecked(d, name) ==
    IF IsBlank(d[AmountField(name)])
    THEN {Err(AmountField(name), -1, "Amount for " \o sourceLabel(name) \o " is required.")}
    ELSE IF ~currencyRegexTest(d[AmountField(name)])
    THEN {Err(AmountField(name), -1, "Must be a valid currency amount.")}
    ELSE {}

\* the refinement of the schema for one income source
SourceIssues(d, name) ==
    IF d[CheckedField(name)]
    THEN IF IsBlank(d[AmountField(name)])
         THEN {Err(AmountField(name), -1,
                   "Amount for " \o sourceLabel(name) \o " is required.")}
         ELSE IF ~currencyRegexTest(d[AmountField(name)])
         THEN {Err(AmountField(name), -1, "Must be a valid currency amount.")}
         ELSE {}
    ELSE {}

FinancialValidate(d) ==
    TotalIncomeIssues(d.totalMonthlyIncome)
        \cup UNION {SourceIssues(d, name) : name \in incomeSources}

\* the amount input of a source is rendered only while its checkbox is checked
isChecked(d, name) == d[CheckedField(name)]

\* a registered input that mounts with no value in the store stores its own ''
FinancialRegistered(d) ==
    [f \in DOMAIN d |->
        IF \E n \in incomeSources : f = AmountField(n) /\ isChecked(d, n) /\ d[f] = Undefined
        THEN <<>> ELSE d[f]]

AmountTexts ==
    {<<>>, <<" ">>, <<"a">>,
     <<"1", ",", "5", "0">>,
     <<"1", ",", "5", "0", "0", ".", "0", "0">>}

TotalIncomeTexts ==
    {<<>>, <<"a">>, <<"$", " ", "2", "0", "0", "0">>,
     <<"1", ",", "5", "0", "0", ".", "0", "0">>}

\* the sources whose amount input was rendered at some time
SourcesTouched(d) == {n \in incomeSources : d[AmountField(n)] # Undefined}

EditTotalMonthlyIncome(v) ==
    /\ step = "financial"
    /\ v \in TotalIncomeTexts
    /\ v # draft.totalMonthlyIncome
    /\ draft' = [draft EXCEPT !.totalMonthlyIncome = v]
    /\ errors' = IF ValidatesOnChange
                 THEN Revalidated(errors, "totalMonthlyIncome", -1, FinancialValidate(draft'))
                 ELSE errors
    /\ UNCHANGED isSubmitted
    /\ Handled

\* the income sources in the order the step lists them
incomeSourceNames ==
    <<"childSupport", "alimony", "wages", "stipends", "SSI", "TCA", "helpFromFamilyFriends",
      "Other">>

SourcesInReach ==
    {incomeSourceNames[k] : k \in {j \in 1..Len(incomeSourceNames) : j <= MaxSourcePosition}}

ToggleSource(name) ==
    /\ step = "financial"
    /\ name \in incomeSources
    /\ name \in SourcesInReach
    /\ draft' = FinancialRegistered([draft EXCEPT ![CheckedField(name)] = ~@])
    /\ Cardinality(SourcesTouched(draft')) <= MaxSources
    /\ errors' = IF ValidatesOnChange
                 THEN Revalidated(errors, CheckedField(name), -1,
                                  FinancialValidate([draft EXCEPT ![CheckedField(name)] = ~@]))
                 ELSE errors
    /\ UNCHANGED isSubmitted
    /\ Handled

EditAmount(name, v) ==
    /\ step = "financial"
    /\ name \in incomeSources
    /\ isChecked(draft, name)
    /\ v \in AmountTexts
    /\ v # draft[AmountField(name)]
    /\ draft' = [draft EXCEPT ![AmountField(name)] = v]
    /\ errors' = IF ValidatesOnChange
                 THEN Revalidated(errors, AmountField(name), -1, FinancialValidate(draft'))
                 ELSE errors
    /\ UNCHANGED isSubmitted
    /\ Handled

\* the registered inputs on screen: the total and the amounts of the checked sources
FinancialBlurFields(d) ==
    {"totalMonthlyIncome"} \cup {AmountField(name) : name \in {n \in incomeSources : isChecked(d, n)}}

BlurFinancialField(field) ==
    /\ step = "financial"
    /\ field \in FinancialBlurFields(draft)
    /\ FieldBlurred(field, -1, FinancialValidate(draft))

SubmitFinancial ==
    /\ step = "financial"
    /\ HandleSubmit(FinancialValidate(draft), ToastOnSubmit)

FinancialNext ==
    \/ \E v \in TotalIncomeTexts : EditTotalMonthlyIncome(v)
    \/ \E name \in incomeSources : ToggleSource(name)
    \/ \E name \in incomeSources, v \in AmountTexts : EditAmount(name, v)
    \/ \E field \in {"totalMonthlyIncome"} \cup {AmountField(name) : name \in incomeSources} :
            BlurFinancialField(field)
    \/ SubmitFinancial

\* what the host holds for the step; the component takes no props, so the slice
\* never reaches it and one slice that differs from the defaults is enough
FinancialHostSlices == {[totalMonthlyIncome |-> << <<"1", "0", "0">> >>]}

FinancialInit == \E slice \in FinancialHostSlices : Mounted("financial", slice, FinancialDefaultValues)

SpecFinancial == FinancialInit /\ [][FinancialNext]_vars

-----------------------------------------------------------------------------
(* Physical/mental health *)

defaultIllness ==
    [type |-> <<>>, symptoms |-> <<>>, doctor |-> <<>>, medication |-> <<>>,
     takingMedsAsPrescribed |-> FALSE, isManageable |-> FALSE]

IllnessTextFields == {"type", "symptoms", "doctor", "medication"}
IllnessBooleanFields == {"takingMedsAsPrescribed", "isManageable"}

IllnessMessage(field) ==
    CASE field = "type"       -> "Type of illness is required"
      [] field = "symptoms"   -> "Symptoms are required"
      [] field = "doctor"     -> "Doctor name is required"
      [] field = "medication" -> "Medication details are required"

HealthBooleanFields ==
    {"hasChronicIllness", "hasPhysicalDisabilities", "hasHealthInsurance",
     "healthInsuranceCoverage.spouse", "healthInsuranceCoverage.children",
     "hasDentalInsurance", "dentalExamLastYear",
     "dentalInsuranceCoverage.spouse", "dentalInsuranceCoverage.children",
     "hasRegularFamilyDoctor", "hasMentalIllness", "receivingMentalHealthTreatment"}

HealthTextFields ==
    {"physicalDisabilitiesExplanation", "healthInsuranceType", "mentalHealthTreatmentExplanation"}

HealthMonthFields == {"lastDoctorAppointment.month", "lastObGynExam.month", "lastMammogram.month"}
HealthYearFields == {"lastDoctorAppointment.year", "lastObGynExam.year", "lastMammogram.year"}

HealthScalarFields ==
    (HealthBooleanFields \ {"hasChronicIllness"}) \cup HealthTextFields
        \cup HealthMonthFields \cup HealthYearFields \cup {"mammogramStatus"}

HealthDefaultValues ==
    [f \in HealthScalarFields \cup {"hasChronicIllness", "chronicIllnesses"} |->
        CASE f \in HealthBooleanFields -> FALSE
          [] f \in HealthTextFields -> <<>>
          [] f \in HealthMonthFields \cup HealthYearFields -> ""
          [] f = "mammogramStatus" -> "not-applicable"
          [] f = "chronicIllnesses" -> <<>>]

\* the options offered by the selects (two of the twelve months, two of the fifty years)
monthOptions == {"January", "December"}
yearOptions == {"2026", "1977"}

HealthFieldValues(field) ==
    CASE field \in HealthBooleanFields -> BOOLEAN
      [] field \in HealthTextFields -> Texts
      [] field \in HealthMonthFields -> monthOptions
      [] field \in HealthYearFields -> yearOptions
      [] field = "mammogramStatus" -> {"yes", "no", "not-applicable"}

\* whether the control of a scalar field is rendered
HealthFieldVisible(d, field) ==
    CASE field = "physicalDisabilitiesExplanation" -> d.hasPhysicalDisabilities
      [] field \in {"healthInsuranceType", "healthInsuranceCoverage.spouse",
                    "healthInsuranceCoverage.children"} -> d.hasHealthInsurance
      [] field \in {"dentalInsuranceCoverage.spouse", "dentalInsuranceCoverage.children"}
            -> d.hasDentalInsurance
      [] field \in {"lastMammogram.month", "lastMammogram.year"} -> d.mammogramStatus = "yes"
      [] field \in {"receivingMentalHealthTreatment", "mentalHealthTreatmentExplanation"}
            -> d.hasMentalIllness
      [] OTHER -> TRUE

\* the chronic-illness block is rendered only while the answer is Yes
IllnessesVisible(d) == d.hasChronicIllness

\* the resolver: the schema tests every entry of the list, whatever hasChronicIllness is
HealthValidate(d) ==
    {Err(p[2], p[1] - 1, IllnessMessage(p[2])) :
        p \in {q \in (1..Len(d.chronicIllnesses)) \X IllnessTextFields :
                  Len(d.chronicIllnesses[q[1]][q[2]]) < 1}}

\* mutant: the effect appends whenever "Yes" is selected
AutoAppendOnEveryYes(d) ==
    IF d.hasChronicIllness /\ Len(d.chronicIllnesses) < 2
    THEN [d EXCEPT !.chronicIllnesses = Append(@, defaultIllness)]
    ELSE d

\* the effect that adds the first entry when "Yes" is selected
AutoAppendEffect(d) ==
    IF d.hasChronicIllness /\ Len(d.chronicIllnesses) = 0
    THEN [d EXCEPT !.chronicIllnesses = Append(@, defaultIllness)]
    ELSE d

\* the key of the entry the effect appends
AutoAppendKey(d, a) ==
    IF d.hasChronicIllness /\ Len(d.chronicIllnesses) = 0 THEN AppendKey(a) ELSE a

HealthScalarsDirty(d) == {f \in HealthScalarFields : d[f] # HealthDefaultValues[f]}

IllnessesDirty(d) ==
    {p \in (1..Len(d.chronicIllnesses)) \X (IllnessTextFields \cup IllnessBooleanFields) :
        d.chronicIllnesses[p[1]][p[2]] # defaultIllness[p[2]]}

SetHasChronicIllness(v) ==
    /\ step = "health"
    /\ v # draft.hasChronicIllness
    /\ draft' = AutoAppendEffect([draft EXCEPT !.hasChronicIllness = v])
    /\ added' = AutoAppendKey([draft EXCEPT !.hasChronicIllness = v], added)
    /\ UNCHANGED <<errors, isSubmitted>>
    /\ HandledAs("edit")

SetHealthField(field, v) ==
    /\ step = "health"
    /\ field \in HealthScalarFields
    /\ HealthFieldVisible(draft, field)
    /\ v \in HealthFieldValues(field)
    /\ v # draft[field]
    /\ draft' = [draft EXCEPT ![field] = v]
    /\ Cardinality(HealthScalarsDirty(draft')) <= MaxScalars
    /\ UNCHANGED <<errors, isSubmitted>>
    /\ Handled

EditIllnessField(i, field, v) ==
    /\ step = "health"
    /\ IllnessesVisible(draft)
    /\ i \in 1..Len(draft.chronicIllnesses)
    /\ i <= MaxEdited
    /\ \/ field \in IllnessTextFields /\ v \in Texts
       \/ field \in IllnessBooleanFields /\ v \in BOOLEAN
    /\ v # draft.chronicIllnesses[i][field]
    /\ draft' = [draft EXCEPT !.chronicIllnesses[i][field] = v]
    /\ Cardinality(IllnessesDirty(draft')) <= MaxIllnessDirty
    /\ errors' = IF ValidatesOnChange
                 THEN Revalidated(errors, field, i - 1, HealthValidate(draft'))
                 ELSE errors
    /\ UNCHANGED isSubmitted
    /\ Handled

BlurIllnessField(i, field) ==
    /\ step = "health"
    /\ IllnessesVisible(draft)
    /\ i \in 1..Len(draft.chronicIllnesses)
    /\ field \in IllnessTextFields
    /\ FieldBlurred(field, i - 1, HealthValidate(draft))

AppendIllness ==
    /\ step = "health"
    /\ IllnessesVisible(draft)
    /\ Len(draft.chronicIllnesses) < MaxIllnesses
    /\ draft' = AutoAppendEffect([draft EXCEPT !.chronicIllnesses = Append(@, defaultIllness)])
    /\ added' = AppendKey(added)
    /\ UNCHANGED <<errors, isSubmitted>>
    /\ HandledAs("append")

\* mutant: the Remove button is rendered for a single entry as well
RemoveIllnessAny(i) ==
    /\ step = "health"
    /\ IllnessesVisible(draft)
    /\ i \in 1..Len(draft.chronicIllnesses)
    /\ draft' = AutoAppendEffect([draft EXCEPT !.chronicIllnesses = RemoveAt(@, i)])
    /\ added' = FirstKeys(Len(draft'.chronicIllnesses))
    /\ errors' = RemoveErrorsAt(errors, i - 1)
    /\ UNCHANGED isSubmitted
    /\ HandledAs("remove")

\* the Remove button of an entry is rendered only while the list has more than one entry
RemoveIllness(i) ==
    /\ step = "health"
    /\ IllnessesVisible(draft)
    /\ Len(draft.chronicIllnesses) > 1
    /\ i \in 1..Len(draft.chronicIllnesses)
    /\ draft' = AutoAppendEffect([draft EXCEPT !.chronicIllnesses = RemoveAt(@, i)])
    /\ added' = RemoveKey(added, i)
    /\ errors' = RemoveErrorsAt(errors, i - 1)
    /\ UNCHANGED isSubmitted
    /\ HandledAs("remove")

SubmitHealth ==
    /\ step = "health"
    /\ HandleSubmit(HealthValidate(draft), ToastOnSubmit)

\* the positions of the chronic-illness entries
IllnessPositions == IF step = "health" THEN 1..Len(draft.chronicIllnesses) ELSE {}

HealthNext ==
    \/ \E v \in BOOLEAN : SetHasChronicIllness(v)
    \/ \E field \in HealthBooleanFields \ {"hasChronicIllness"}, v \in BOOLEAN :
            SetHealthField(field, v)
    \/ \E field \in HealthTextFields, v \in Texts : SetHealthField(field, v)
    \/ \E field \in HealthMonthFields \cup HealthYearFields \cup {"mammogramStatus"},
           v \in monthOptions \cup yearOptions \cup {"yes", "no", "not-applicable"} :
            SetHealthField(field, v)
    \/ \E i \in IllnessPositions, field \in IllnessTextFields, v \in Texts :
            EditIllnessField(i, field, v)
    \/ \E i \in IllnessPositions, field \in IllnessBooleanFields,
           v \in BOOLEAN :
            EditIllnessField(i, field, v)
    \/ \E i \in IllnessPositions, field \in IllnessTextFields : BlurIllnessField(i, field)
    \/ AppendIllness
    \/ \E i \in IllnessPositions : RemoveIllness(i)
    \/ ResetForm
    \/ SubmitHealth

\* what the host holds for the step; the component takes no props, so the slice
\* never reaches it and one slice that differs from the defaults is enough
HealthHostSlices == {[hasChronicIllness |-> <<TRUE>>]}

HealthInit == \E slice \in HealthHostSlices : Mounted("health", slice, AutoAppendEffect(HealthDefaultValues))

SpecHealth == HealthInit /\ [][HealthNext]_vars

-----------------------------------------------------------------------------
(* Which errors of formState.errors the step renders as a FieldError *)

CriminalErrorShown(d, e) ==
    /\ ChargesVisible(d)
    /\ (e.index + 1) \in 1..Len(d.charges)
    /\ \/ e.field \in {"personName", "charge", "outcome"}
       \/ /\ e.field = "probationOfficer"
          /\ d.charges[e.index + 1].areTheyOnProbation = "Yes"

SubstanceErrorShown(d, e) ==
    \/ e.field \in SubstanceRadios
    \/ e.field \in SubstanceTextFields /\ SubstanceFieldVisible(d, e.field)

\* the ssn and race controllers render no FieldError
ChildrenErrorShown(d, e) ==
    /\ (e.index + 1) \in 1..Len(d.children)
    /\ e.field \in {"name", "birthday", "gender"}

FinancialErrorShown(d, e) ==
    \/ e.field = "totalMonthlyIncome"
    \/ \E n \in incomeSources : e.field = AmountField(n) /\ isChecked(d, n)

HealthErrorShown(d, e) ==
    /\ IllnessesVisible(d)
    /\ (e.index + 1) \in 1..Len(d.chronicIllnesses)
    /\ e.field \in IllnessTextFields

-----------------------------------------------------------------------------
(* The number shown in the heading of each rendered entry *)

\* mutant: the heading shows the position as the array counts it
EntryHeadingFromZero(index) == index

\* Charge #{index + 1}, Child {index + 1}, Chronic Illness {index + 1}
EntryHeading(index) == index + 1

\* whether the entries of the list of step s are rendered
ListRendered(s, d) ==
    CASE s = "criminal" -> ChargesVisible(d)
      [] s = "children" -> TRUE
      [] s = "health"   -> IllnessesVisible(d)
      [] OTHER          -> FALSE

\* the headings in the order of fields.map((field, index) => ...)
VisibleNumbers(s, d) ==
    IF ListRendered(s, d)
    THEN [k \in 1..Len(ListOf(s, d)) |-> EntryHeading(k - 1)]
    ELSE <<>>

-----------------------------------------------------------------------------
(* The wizard shows one step at a time *)

Init == CriminalInit \/ SubstanceInit \/ ChildrenInit \/ FinancialInit \/ HealthInit

Next == CriminalNext \/ SubstanceNext \/ ChildrenNext \/ FinancialNext \/ HealthNext

Spec == Init /\ [][Next]_vars

-----------------------------------------------------------------------------
(* Vocabulary of the properties *)

Range(seq) == {seq[k] : k \in 1..Len(seq)}

SubmitSucceededWithHost == calls = <<"updateData", "nextStep">>

HostCalled == "updateData" \in Range(calls) \/ "nextStep" \in Range(calls)

\* absent, empty or made of white space only
BlankText(v) == v = Undefined \/ \A k \in 1..Len(v) : v[k] = " "

\* a charge with every field the step asks for
ChargeComplete(c) ==
    /\ c.personName # <<>>
    /\ c.charge # <<>>
    /\ c.outcome # <<>>
    /\ c.areTheyOnProbation = "Yes" => c.probationOfficer # <<>>

\* what the step's whole validation says about the current draft
StepIssues ==
    CASE step = "criminal"  -> CriminalValidate(draft)
      [] step = "substance" -> SubstanceValidate(draft)
      [] step = "children"  -> ChildrenValidate(draft)
      [] step = "financial" -> FinancialValidate(draft)
      [] step = "health"    -> HealthValidate(draft)

EmptyListRuleViolated ==
    step = "criminal" /\ draft.hasCriminalOffense = "Yes" /\ Len(draft.charges) = 0

-----------------------------------------------------------------------------
(* C1: in every step, a submit whose draft passes the step's validation calls
   updateData exactly once and then nextStep exactly once, in that order.
   Stated as written; the steps other than criminal history only show a toast. *)
C1_ValidSubmitUpdatesThenAdvances ==
    (last = "submit" /\ StepIssues = {} /\ ~EmptyListRuleViolated)
        => calls = <<"updateData", "nextStep">>

-----------------------------------------------------------------------------
(* C2: in every step, a submit whose draft fails validation (a required field
   empty, a format mismatch, or a violated conditional rule) calls neither
   updateData nor nextStep. *)
C2_DraftFails ==
    CASE step = "criminal" ->
            /\ draft.hasCriminalOffense = "Yes"
            /\ \/ Len(draft.charges) = 0
               \/ \E i \in 1..Len(draft.charges) : ~ChargeComplete(draft.charges[i])
      [] step = "substance" ->
            \/ /\ draft.hasSubstanceHistory = "Yes"
               /\ \E f \in {"substances", "lastUseMonth", "lastUseYear"} : BlankText(draft[f])
            \/ draft.isCleanAndSober = "Yes" /\ BlankText(draft.sobrietyPlan)
            \/ draft.hasInpatientTreatment = "Yes" /\ BlankText(draft.inpatientDetails)
      [] step = "children" ->
            \E i \in 1..Len(draft.children) :
                \/ draft.children[i].birthday = Undefined
                \/ ~SsnRegexTest(draft.children[i].ssn)
                \/ draft.children[i].gender = ""
      [] step = "financial" ->
            \/ draft.totalMonthlyIncome = <<>>
            \/ ~currencyRegexTest(draft.totalMonthlyIncome)
            \/ \E n \in incomeSources :
                    /\ draft[CheckedField(n)]
                    /\ \/ BlankText(draft[AmountField(n)])
                       \/ ~currencyRegexTest(draft[AmountField(n)])
      [] step = "health" ->
            /\ draft.hasChronicIllness
            /\ \E i \in 1..Len(draft.chronicIllnesses), f \in IllnessTextFields :
                    draft.chronicIllnesses[i][f] = <<>>

C2_InvalidSubmitCallsNothing == (last = "submit" /\ C2_DraftFails) => ~HostCalled

C2_Witness ==
    /\ step = "criminal"
    /\ last = "submit"
    /\ C2_DraftFails
    /\ Len(draft.charges) >= 1
    /\ isSubmitted
    /\ calls = <<>>

-----------------------------------------------------------------------------
(* C3: in the criminal-history step, a submit with hasCriminalOffense = 'Yes'
   and an empty charges list is blocked by an alert: neither updateData nor
   nextStep is called, no inline field error is set and the list stays empty. *)
C3_EmptyListSubmitAlerts ==
    [][(/\ step = "criminal"
        /\ draft.hasCriminalOffense = "Yes"
        /\ Len(draft.charges) = 0
        /\ last' = "submit")
            => (/\ calls' = <<"alert">>
                /\ emitted' = <<>>
                /\ errors' = {}
                /\ Len(draft'.charges) = 0
                /\ draft'.hasCriminalOffense = "Yes")]_vars

C3_Witness ==
    /\ step = "criminal"
    /\ last = "submit"
    /\ draft.hasCriminalOffense = "Yes"
    /\ Len(draft.charges) = 0
    /\ calls = <<"alert">>

-----------------------------------------------------------------------------
(* C4: in the criminal-history step with hasCriminalOffense = 'Yes' and at
   least one charge, submit succeeds exactly when every charge has non-empty
   personName, charge and outcome, and a non-empty probationOfficer if its
   areTheyOnProbation is 'Yes'; nothing else is ever required. *)
C4_SubmitSucceedsIffChargesComplete ==
    (/\ step = "criminal"
     /\ last = "submit"
     /\ draft.hasCriminalOffense = "Yes"
     /\ Len(draft.charges) >= 1)
        => (SubmitSucceededWithHost
                <=> \A i \in 1..Len(draft.charges) : ChargeComplete(draft.charges[i]))

C4_Witness ==
    /\ step = "criminal"
    /\ last = "submit"
    /\ draft.hasCriminalOffense = "Yes"
    /\ SubmitSucceededWithHost
    /\ \E i \in 1..Len(draft.charges) :
            /\ draft.charges[i].areTheyOnProbation = "No"
            /\ draft.charges[i].probationOfficer = <<>>
            /\ draft.charges[i].dateOfOffense = <<>>
            /\ draft.charges[i].lengthOfProbation # <<>>

-----------------------------------------------------------------------------
(* C5: in the financial step, validation reports a required-amount error at a
   source's own amount field exactly when the source is checked and its amount
   is absent, empty or white space; an unchecked source never has an amount
   error. *)
C5_RequiredError(n) == Err(AmountField(n), -1, "Amount for " \o sourceLabel(n) \o " is required.")

C5_RequiredAmountIffCheckedAndBlank ==
    (step = "financial" /\ last = "submit")
        => \A n \in incomeSources :
              /\ C5_RequiredError(n) \in errors
                    <=> (draft[CheckedField(n)] /\ BlankText(draft[AmountField(n)]))
              /\ ~draft[CheckedField(n)] => \A e \in errors : e.field # AmountField(n)
              /\ \A e \in errors :
                    e.message = C5_RequiredError(n).message => e.field = AmountField(n)

C5_Witness ==
    /\ step = "financial"
    /\ last = "submit"
    /\ draft[CheckedField("wages")]
    /\ draft[AmountField("wages")] = <<" ">>
    /\ C5_RequiredError("wages") \in errors
    /\ \E n \in incomeSources \ {"wages"} :
            /\ ~draft[CheckedField(n)]
            /\ draft[AmountField(n)] = <<>>

-----------------------------------------------------------------------------
(* C6: in the financial step, a checked source with a non-blank amount blocks
   the submit with a format error at that amount field exactly when the amount
   is not: optional '$', optional spaces, 1-3 digits, groups of three digits
   each optionally preceded by a comma, an optional two-digit decimal part;
   with a valid total, a checked source with "1,500.00" submits. *)
RECURSIVE DigitGroups(_)
DigitGroups(t) ==
    \/ t = <<>>
    \/ /\ Len(t) >= 3
       /\ \A k \in (Len(t) - 2)..Len(t) : t[k] \in Digits
       /\ \/ DigitGroups(SubSeq(t, 1, Len(t) - 3))
          \/ /\ Len(t) >= 4
             /\ t[Len(t) - 3] = ","
             /\ DigitGroups(SubSeq(t, 1, Len(t) - 4))

CurrencyFormat(s) ==
    \E dollar \in 0..1, spaces \in 0..Len(s), head \in 1..3, cents \in {0, 3} :
        /\ dollar + spaces + head + cents <= Len(s)
        /\ dollar = 1 => s[1] = "$"
        /\ \A k \in (dollar + 1)..(dollar + spaces) : s[k] = " "
        /\ \A k \in (dollar + spaces + 1)..(dollar + spaces + head) : s[k] \in Digits
        /\ cents = 3 => (/\ s[Len(s) - 2] = "."
                         /\ s[Len(s) - 1] \in Digits
                         /\ s[Len(s)] \in Digits)
        /\ DigitGroups(SubSeq(s, dollar + spaces + head + 1, Len(s) - cents))

CurrencyStrings == UNION {[1..n -> {"$", " ", "1", ",", "."}] : n \in 0..MaxLen}

FifteenHundred == <<"1", ",", "5", "0", "0", ".", "0", "0">>

C6_FormatError(n) == Err(AmountField(n), -1, "Must be a valid currency amount.")

C6_FormatErrorIffNotCurrency ==
    /\ (step = "financial" /\ last = "submit")
          => /\ \A n \in incomeSources :
                    (draft[CheckedField(n)] /\ ~BlankText(draft[AmountField(n)]))
                        => /\ C6_FormatError(n) \in errors
                                <=> ~CurrencyFormat(draft[AmountField(n)])
                           /\ C6_FormatError(n) \in errors
                                => (outcome = "invalid" /\ calls = <<>>)
             /\ (/\ CurrencyFormat(draft.totalMonthlyIncome)
                 /\ \E n \in incomeSources : draft[CheckedField(n)]
                 /\ \A n \in incomeSources :
                        draft[CheckedField(n)] => draft[AmountField(n)] = FifteenHundred)
                    => (outcome = "valid" /\ calls = <<"toast">>)
    /\ (step = "financial" /\ last = "mount")
          => \A s \in CurrencyStrings : currencyRegexTest(s) <=> CurrencyFormat(s)

C6_Witness ==
    /\ step = "financial"
    /\ last = "submit"
    /\ outcome = "valid"
    /\ \E n \in incomeSources :
            draft[CheckedField(n)] /\ draft[AmountField(n)] = FifteenHundred

-----------------------------------------------------------------------------
(* C7: in the children step the list never holds more than five entries: the
   add control is disabled exactly when the list holds five or more, so an add
   attempted at five entries leaves the length at five. *)
C7_AtMostFiveChildren ==
    /\ [](step = "children" => (/\ Len(draft.children) <= MaxChildren
                                /\ AddChildDisabled(draft) <=> Len(draft.children) >= 5))
    /\ [][(step = "children" /\ Len(draft.children) >= MaxChildren)
             => Len(draft'.children) <= Len(draft.children)]_vars

C7_Witness ==
    /\ step = "children"
    /\ Len(draft.children) = MaxChildren
    /\ AddChildDisabled(draft)

-----------------------------------------------------------------------------
(* C8: in the health step, with hasChronicIllness = false (also after Yes, an
   entry, and back to No) a submit is not blocked by an incomplete
   chronic-illness entry.  Stated as written; the schema tests the hidden
   entries. *)
C8_HiddenIllnessesNeverBlock ==
    (step = "health" /\ last = "submit" /\ ~draft.hasChronicIllness)
        => (outcome = "valid" /\ errors = {})

-----------------------------------------------------------------------------
(* C9: in the substance-use step, validation fails on a dependent field exactly
   when its governing field is 'Yes' and the dependent value is absent, empty or
   white space: hasSubstanceHistory governs substances, lastUseMonth and
   lastUseYear; isCleanAndSober governs sobrietyPlan; hasInpatientTreatment
   governs inpatientDetails; hasSponsor governs nothing. *)
C9_Governs ==
    {<<"hasSubstanceHistory", "substances">>, <<"hasSubstanceHistory", "lastUseMonth">>,
     <<"hasSubstanceHistory", "lastUseYear">>, <<"isCleanAndSober", "sobrietyPlan">>,
     <<"hasInpatientTreatment", "inpatientDetails">>}

C9_DependentFailsIffGovernedAndBlank ==
    (step = "substance" /\ last = "submit")
        => /\ \A g \in C9_Governs :
                  (\E e \in errors : e.field = g[2])
                      <=> (draft[g[1]] = "Yes" /\ BlankText(draft[g[2]]))
           /\ \A e \in errors : \E g \in C9_Governs : e.field = g[2]
           /\ (outcome = "invalid") <=> (errors # {})

C9_Witness ==
    /\ step = "substance"
    /\ last = "submit"
    /\ draft.hasSubstanceHistory = "Yes"
    /\ draft.substances = <<" ">>
    /\ \E e \in errors : e.field = "substances"
    /\ draft.hasInpatientTreatment = "No"
    /\ draft.inpatientDetails = <<>>
    /\ draft.hasSponsor = "Yes"

-----------------------------------------------------------------------------
(* C10: whenever a submit is blocked by a field-level validation failure, an
   inline error message is displayed at each offending field, so no step is
   ever blocked with no visible error.  Stated as written; the children step
   renders no message for ssn and the health step hides the chronic-illness
   block while its entries still fail. *)
ErrorShown(e) ==
    CASE step = "criminal"  -> CriminalErrorShown(draft, e)
      [] step = "substance" -> SubstanceErrorShown(draft, e)
      [] step = "children"  -> ChildrenErrorShown(draft, e)
      [] step = "financial" -> FinancialErrorShown(draft, e)
      [] step = "health"    -> HealthErrorShown(draft, e)

C10_BlockedSubmitShowsEveryError ==
    (last = "submit" /\ outcome = "invalid") => \A e \in errors : ErrorShown(e)

-----------------------------------------------------------------------------
(* C11: in each dynamic-list step, append adds exactly one entry at the end
   with the step's declared default values and leaves the existing entries
   unchanged; remove(i) deletes exactly the entry at position i, moves every
   later entry down by one with its values intact and leaves the earlier
   entries unchanged. *)
List == ListOf(step, draft)

C11_DefaultEntry ==
    CASE step = "criminal" ->
            [personName |-> <<>>, charge |-> <<>>, dateOfOffense |-> <<>>, outcome |-> <<>>,
             areTheyOnProbation |-> "No", probationOfficer |-> <<>>,
             lengthOfProbation |-> <<>>, startDate |-> <<>>, endDate |-> <<>>]
      [] step = "children" ->
            [name |-> <<>>, birthday |-> Undefined, ssn |-> <<>>, gender |-> "",
             race |-> <<>>, living |-> FALSE]
      [] step = "health" ->
            [type |-> <<>>, symptoms |-> <<>>, doctor |-> <<>>, medication |-> <<>>,
             takingMedsAsPrescribed |-> FALSE, isManageable |-> FALSE]

C11_Appended ==
    /\ Len(List') = Len(List) + 1
    /\ \A k \in 1..Len(List) : List'[k] = List[k]
    /\ List'[Len(List')] = C11_DefaultEntry

C11_Removed(i) ==
    /\ Len(List') = Len(List) - 1
    /\ \A k \in 1..(i - 1) : List'[k] = List[k]
    /\ \A k \in i..Len(List') : List'[k] = List[k + 1]

C11_AppendAndRemoveAreExact ==
    [][/\ AppendCharge => C11_Appended
       /\ (AddChild /\ ~AddChildDisabled(draft)) => C11_Appended
       /\ AppendIllness => C11_Appended
       /\ \A i \in ChargePositions : RemoveCharge(i) => C11_Removed(i)
       /\ \A i \in IllnessPositions : RemoveIllness(i) => C11_Removed(i)]_vars

C11_Witness ==
    /\ step = "criminal"
    /\ last = "remove"
    /\ Len(defaults.charges) = 2
    /\ draft.charges = <<defaults.charges[2]>>
    /\ defaults.charges[1] # defaults.charges[2]

-----------------------------------------------------------------------------
(* C12: in each dynamic-list step, an append from the empty list followed by
   remove(0) on the single-entry list is available to the user and returns the
   list to empty.  Stated as written; the children step renders no remove
   control and the health step renders it only while the list has more than one
   entry. *)
C12_ListShown ==
    CASE step = "criminal" -> draft.hasCriminalOffense = "Yes"
      [] step = "children" -> TRUE
      [] step = "health"   -> draft.hasChronicIllness
      [] OTHER             -> FALSE

C12_SingleEntryCanBeRemoved ==
    (C12_ListShown /\ Len(List) = 1)
        => ENABLED (Next /\ last' = "remove" /\ Len(List') = 0)

-----------------------------------------------------------------------------
(* C13: in each dynamic-list step, after any sequence of appends and removes
   the numbers shown for the n displayed entries are exactly 1..n in list order
   (position p shows p+1), and no entry stores its number. *)
C13_VisibleNumbersArePositions ==
    step \in {"criminal", "children", "health"}
        => /\ Len(VisibleNumbers(step, draft)) = (IF C12_ListShown THEN Len(List) ELSE 0)
           /\ \A k \in 1..Len(VisibleNumbers(step, draft)) :
                    VisibleNumbers(step, draft)[k] = k
           /\ \A k \in 1..Len(List) : DOMAIN List[k] = DOMAIN C11_DefaultEntry

C13_Witness ==
    /\ step = "health"
    /\ last = "remove"
    /\ draft.hasChronicIllness
    /\ VisibleNumbers(step, draft) = <<1>>

-----------------------------------------------------------------------------
(* C14: in each dynamic-list step, after any sequence of appends and removes
   the entries still in the list appear in the order in which they were added:
   an entry added earlier always stands before one added later. *)
C14_ListOrderIsAddOrder ==
    /\ Len(added) = Len(List)
    /\ \A j, k \in 1..Len(added) : j < k => added[j] < added[k]

C14_Witness ==
    /\ step = "health"
    /\ last = "append"
    /\ added = <<1, 2>>
    /\ List[1].type # <<>>
    /\ List[2].type = <<>>

-----------------------------------------------------------------------------
(* C15: in every reachable state each gated field group is visible exactly when
   its governing field currently has the triggering value (charges block:
   hasCriminalOffense = 'Yes'; substance details: hasSubstanceHistory = 'Yes';
   sobriety plan: isCleanAndSober = 'Yes'; inpatient details:
   hasInpatientTreatment = 'Yes'; a source's amount: its checkbox checked;
   mammogram date: mammogramStatus = 'yes'), whatever was toggled before; a
   field event changes a gated value only while its group is visible. *)
C15_Trigger ==
    [substances |-> <<"hasSubstanceHistory", "Yes">>,
     lastUseMonth |-> <<"hasSubstanceHistory", "Yes">>,
     lastUseYear |-> <<"hasSubstanceHistory", "Yes">>,
     sobrietyPlan |-> <<"isCleanAndSober", "Yes">>,
     inpatientDetails |-> <<"hasInpatientTreatment", "Yes">>,
     lastMammogram_month |-> <<"mammogramStatus", "yes">>,
     lastMammogram_year |-> <<"mammogramStatus", "yes">>]

C15_Gated(f) ==
    CASE f = "lastMammogram_month" -> "lastMammogram.month"
      [] f = "lastMammogram_year"  -> "lastMammogram.year"
      [] OTHER                     -> f

C15_Fields ==
    CASE step = "substance" ->
            {"substances", "lastUseMonth", "lastUseYear", "sobrietyPlan", "inpatientDetails"}
      [] step = "health" -> {"lastMammogram_month", "lastMammogram_year"}
      [] OTHER -> {}

C15_VisibleNow ==
    /\ step = "criminal" => (ChargesVisible(draft) <=> draft.hasCriminalOffense = "Yes")
    /\ step = "substance" =>
            \A f \in C15_Fields :
                SubstanceFieldVisible(draft, f) <=> draft[C15_Trigger[f][1]] = C15_Trigger[f][2]
    /\ step = "financial" =>
            \A n \in incomeSources : isChecked(draft, n) <=> draft[n \o "_checked"] = TRUE
    /\ step = "health" =>
            \A f \in C15_Fields :
                HealthFieldVisible(draft, C15_Gated(f))
                    <=> draft[C15_Trigger[f][1]] = C15_Trigger[f][2]

C15_EditedOnlyWhileVisible ==
    last' = "edit" =>
        /\ \A f \in C15_Fields :
                (/\ draft'[C15_Gated(f)] # draft[C15_Gated(f)]
                 /\ draft'[C15_Trigger[f][1]] = draft[C15_Trigger[f][1]])
                    => draft[C15_Trigger[f][1]] = C15_Trigger[f][2]
        /\ step = "financial" =>
                \A n \in incomeSources :
                    (/\ draft'[n \o "_amount"] # draft[n \o "_amount"]
                     /\ draft'[n \o "_checked"] = draft[n \o "_checked"])
                        => draft[n \o "_checked"] = TRUE
        /\ (step = "criminal" /\ draft'.charges # draft.charges)
                => draft.hasCriminalOffense = "Yes"

C15_VisibleExactlyWhenTriggered == []C15_VisibleNow /\ [][C15_EditedOnlyWhileVisible]_vars

C15_Witness ==
    /\ step = "financial"
    /\ isChecked(draft, "wages")
    /\ \E n \in incomeSources :
            /\ ~isChecked(draft, n)
            /\ draft[AmountField(n)] \notin {Undefined, <<>>}

-----------------------------------------------------------------------------
(* C16: in the criminal-history step, setting areTheyOnProbation of the charge
   at position i shows or hides the probation-detail fields of that charge
   only: every other charge keeps its values and the visibility of its
   probation details, also when earlier removals have shifted the positions. *)
C16_ProbationShown(d, j) ==
    d.hasCriminalOffense = "Yes" /\ d.charges[j].areTheyOnProbation = "Yes"

C16_ToggleAt(i, v) ==
    /\ Len(draft'.charges) = Len(draft.charges)
    /\ C16_ProbationShown(draft', i) <=> v = "Yes"
    /\ \A f \in {"probationOfficer", "lengthOfProbation", "startDate", "endDate"} :
            /\ ChargeFieldMounted(draft', i, f) <=> v = "Yes"
            /\ \A j \in 1..Len(draft.charges) :
                    j # i => (ChargeFieldMounted(draft', j, f) <=> ChargeFieldMounted(draft, j, f))
    /\ \A j \in 1..Len(draft.charges) : j # i => draft'.charges[j] = draft.charges[j]
    /\ \A f \in DOMAIN draft.charges[i] \ {"areTheyOnProbation"} :
            draft'.charges[i][f] = draft.charges[i][f]

C16_ProbationToggleIsLocal ==
    [][\A i \in ChargePositions, v \in {"Yes", "No"} :
            SetAreTheyOnProbation(i, v) => C16_ToggleAt(i, v)]_vars

C16_Witness ==
    /\ step = "criminal"
    /\ last = "edit"
    /\ Len(defaults.charges) = 3
    /\ Len(draft.charges) = 2
    /\ draft.charges[1].areTheyOnProbation = "No"
    /\ draft.charges[2].areTheyOnProbation = "Yes"
    /\ draft.charges[2].probationOfficer = <<>>

-----------------------------------------------------------------------------
(* C17: hiding a gated field group does not clear it: setting a governing
   field to its non-triggering value and back leaves every dependent value
   (and, for lists, every entry) exactly as it was.  Step by step: a change of
   a governing field alters no dependent that already has a value, and a first
   showing only gives an absent text its empty input value or an empty
   chronic-illness list its first entry. *)
C17_Governed ==
    CASE step = "substance" ->
            {<<"hasSubstanceHistory", "substances">>, <<"hasSubstanceHistory", "lastUseMonth">>,
             <<"hasSubstanceHistory", "lastUseYear">>, <<"isCleanAndSober", "sobrietyPlan">>,
             <<"hasInpatientTreatment", "inpatientDetails">>}
      [] step = "financial" -> {<<n \o "_checked", n \o "_amount">> : n \in incomeSources}
      [] step = "health" ->
            {<<"hasPhysicalDisabilities", "physicalDisabilitiesExplanation">>,
             <<"hasHealthInsurance", "healthInsuranceType">>,
             <<"hasHealthInsurance", "healthInsuranceCoverage.spouse">>,
             <<"hasHealthInsurance", "healthInsuranceCoverage.children">>,
             <<"hasDentalInsurance", "dentalInsuranceCoverage.spouse">>,
             <<"hasDentalInsurance", "dentalInsuranceCoverage.children">>,
             <<"mammogramStatus", "lastMammogram.month">>,
             <<"mammogramStatus", "lastMammogram.year">>,
             <<"hasMentalIllness", "receivingMentalHealthTreatment">>,
             <<"hasMentalIllness", "mentalHealthTreatmentExplanation">>}
      [] OTHER -> {}

C17_ToggleKeepsDependents ==
    last' = "edit" =>
        /\ \A g \in C17_Governed :
                draft'[g[1]] # draft[g[1]]
                    => \/ draft'[g[2]] = draft[g[2]]
                       \/ draft[g[2]] = Undefined /\ draft'[g[2]] = <<>>
        /\ (step = "criminal" /\ draft'.hasCriminalOffense # draft.hasCriminalOffense)
                => draft'.charges = draft.charges
        /\ (step = "health" /\ draft'.hasChronicIllness # draft.hasChronicIllness)
                => \/ draft'.chronicIllnesses = draft.chronicIllnesses
                   \/ Len(draft.chronicIllnesses) = 0 /\ draft'.hasChronicIllness

C17_HidingDoesNotClear == [][C17_ToggleKeepsDependents]_vars

C17_Witness ==
    /\ step = "substance"
    /\ last = "edit"
    /\ draft.hasSubstanceHistory = "No"
    /\ draft.substances = <<"a">>
    /\ draft.lastUseYear = <<"2", "0", "2", "3">>

-----------------------------------------------------------------------------
(* C18: on mount each step seeds its draft from the slice the host holds for
   it: a field the slice holds takes the slice's value, and only an absent
   field takes its default ('No' / false / empty list).
   This does not hold: only the criminal-history step reads the slice; the
   other four steps take no props and mount with fixed default values. *)
C18_Fallback ==
    CASE step = "criminal"  -> CriminalDefaultValues(HostSlice(<<>>, <<>>, <<>>))
      [] step = "substance" -> SubstanceDefaultValues
      [] step = "children"  -> ChildrenDefaultValues
      [] step = "financial" -> FinancialDefaultValues
      [] step = "health"    -> AutoAppendEffect(HealthDefaultValues)

C18_Seeded ==
    [f \in DOMAIN draft |->
        IF f \in DOMAIN data /\ data[f] # <<>> THEN data[f][1] ELSE C18_Fallback[f]]

C18_DraftSeededFromSlice == last = "mount" => draft = C18_Seeded

-----------------------------------------------------------------------------
(* C19: on a successful submit of the criminal-history step the slice passed
   to updateData is one record made of exactly the step's own fields
   (hasCriminalOffense, charges, isWillingToBackgroundCheck), each charge of
   the fields of a charge, and it equals the draft as it is at the submit. *)
C19_SlicePassedIsTheDraft ==
    (step = "criminal" /\ last = "submit" /\ "updateData" \in Range(calls))
        => /\ emitted = <<draft>>
           /\ DOMAIN emitted[1] = {"hasCriminalOffense", "charges", "isWillingToBackgroundCheck"}
           /\ \A k \in 1..Len(emitted[1].charges) :
                  DOMAIN emitted[1].charges[k] = DOMAIN initialCharge

C19_Witness ==
    /\ step = "criminal"
    /\ last = "submit"
    /\ calls = <<"updateData", "nextStep">>
    /\ draft # defaults
    /\ draft.hasCriminalOffense = "Yes"
    /\ Len(draft.charges) = 1
    /\ Len(emitted) = 1
    /\ emitted[1].charges[1].personName # <<>>

-----------------------------------------------------------------------------
(* C20: each step keeps its own validation trigger.  Before the first submit
   attempt the children step validates a field as soon as its value changes
   (and not when it loses focus); the criminal-history, substance-use and
   financial steps leave the errors alone when a value changes and validate a
   field when it loses focus; the health step holds no validation error until
   a submit is attempted. *)
C20_At(errs, field, index) == {e \in errs : e.field = field /\ e.index = index}

C20_Elsewhere(errs, field, index) == errs \ C20_At(errs, field, index)

C20_BlurValidates(field, index, fresh) ==
    /\ C20_At(errors', field, index) = C20_At(fresh, field, index)
    /\ C20_Elsewhere(errors', field, index) = C20_Elsewhere(errors, field, index)

C20_OnChange ==
    /\ \A i \in ChildPositions, field \in ChildEditableFields :
            (/\ last' = "edit"
             /\ Len(draft'.children) = Len(draft.children)
             /\ draft'.children[i][field] # draft.children[i][field])
                => /\ C20_At(errors', field, i - 1)
                        = C20_At(ChildrenValidate(draft'), field, i - 1)
                   /\ C20_Elsewhere(errors', field, i - 1) = C20_Elsewhere(errors, field, i - 1)
    /\ (step = "children" /\ last' = "edit" /\ draft' = draft) => errors' = errors

C20_BlurredFieldIsValidated ==
    /\ \A i \in ChargePositions, field \in ChargeTextFields :
            BlurChargeField(i, field)
                => C20_BlurValidates(field, i - 1, CriminalValidate(draft))
    /\ \A field \in SubstanceTextFields :
            BlurSubstanceField(field) => C20_BlurValidates(field, -1, SubstanceValidate(draft))
    /\ \A field \in IF step = "financial" THEN FinancialBlurFields(draft) ELSE {} :
            BlurFinancialField(field) => C20_BlurValidates(field, -1, FinancialValidate(draft))

C20_OnBlur ==
    /\ (step \in {"criminal", "substance", "financial"} /\ last' = "edit" /\ draft' # draft)
            => errors' = errors
    /\ (last' = "edit" /\ draft' = draft) => C20_BlurredFieldIsValidated

C20_OnSubmitOnly == (step = "health" /\ ~isSubmitted) => errors = {}

C20_EachStepKeepsItsTrigger ==
    /\ []C20_OnSubmitOnly
    /\ [][~isSubmitted => (C20_OnChange /\ C20_OnBlur)]_vars

C20_Witness ==
    /\ step = "criminal"
    /\ ~isSubmitted
    /\ last = "edit"
    /\ Len(draft.charges) = 1
    /\ draft.charges[1].charge # <<>>
    /\ errors = {Err("personName", 0, ChargeRequiredMessage("personName"))}

-----------------------------------------------------------------------------
(* C22: in the children step a submit in which a child entry has an empty
   name is rejected with a 'child name is required' error on the name field of
   that entry.
   This does not hold: z.string("child name is required") accepts the empty
   string, so an empty name produces no error and blocks nothing. *)
C22_EmptyNames ==
    IF step = "children"
    THEN {i \in 1..Len(draft.children) : draft.children[i].name = <<>>}
    ELSE {}

C22_EmptyNameIsRejected ==
    (step = "children" /\ last = "submit")
        => \A i \in C22_EmptyNames :
              /\ outcome = "invalid"
              /\ Err("name", i - 1, "child name is required") \in errors

-----------------------------------------------------------------------------
(* C23: in the children step a submit succeeds exactly when every child entry
   has a birthday that is a date, an ssn made of three digits, a hyphen, two
   digits, a hyphen and four digits, and a non-empty gender; a submit with no
   child entry always succeeds. *)
C23_SsnForm(s) ==
    /\ Len(s) = 3 + 1 + 2 + 1 + 4
    /\ \A k \in {1, 2, 3, 5, 6, 8, 9, 10, 11} : s[k] \in Digits
    /\ s[4] = "-"
    /\ s[7] = "-"

C23_ChildAccepted(child) ==
    /\ child.birthday # Undefined
    /\ C23_SsnForm(child.ssn)
    /\ child.gender # ""

C23_SubmitSucceedsIffChildrenAccepted ==
    (step = "children" /\ last = "submit")
        => /\ (outcome = "valid")
                <=> \A i \in 1..Len(draft.children) : C23_ChildAccepted(draft.children[i])
           /\ (outcome = "valid") <=> (calls = <<"toast">>)
           /\ Len(draft.children) = 0 => outcome = "valid"

C23_Witness ==
    /\ step = "children"
    /\ last = "submit"
    /\ outcome = "valid"
    /\ Len(draft.children) = 1
    /\ draft.children[1].gender = "female"
    /\ draft.children[1].name = <<>>

-----------------------------------------------------------------------------
(* C24: in the financial step totalMonthlyIncome is always required: a submit
   with it empty is blocked with 'Monthly household income is required.', a
   submit with a non-empty value that is not in the currency format is blocked
   with a format error, and a value in the format gets no error, whichever
   income sources are checked. *)
C24_TotalErrors == {e \in errors : e.field = "totalMonthlyIncome"}

C24_TotalIsRequired ==
    (step = "financial" /\ last = "submit")
        => /\ draft.totalMonthlyIncome = <<>>
                => /\ C24_TotalErrors
                        = {Err("totalMonthlyIncome", -1, "Monthly household income is required.")}
                   /\ outcome = "invalid"
                   /\ calls = <<>>
           /\ (draft.totalMonthlyIncome # <<>> /\ ~CurrencyFormat(draft.totalMonthlyIncome))
                => /\ C24_TotalErrors
                        = {Err("totalMonthlyIncome", -1,
                               "Must be a valid currency format (e.g., 1,500.00)")}
                   /\ outcome = "invalid"
                   /\ calls = <<>>
           /\ CurrencyFormat(draft.totalMonthlyIncome) => C24_TotalErrors = {}

C24_Witness ==
    /\ step = "financial"
    /\ last = "submit"
    /\ draft.totalMonthlyIncome = <<>>
    /\ draft[CheckedField("wages")]
    /\ CurrencyFormat(draft[AmountField("wages")])
    /\ errors = {Err("totalMonthlyIncome", -1, "Monthly household income is required.")}

-----------------------------------------------------------------------------
(* C25: in the health step, when hasChronicIllness becomes true while the
   chronic-illness list is empty, exactly one entry with the default values
   (empty strings, both booleans false) is appended automatically; when the
   list is not empty, switching hasChronicIllness to true appends nothing, so
   No then Yes never duplicates entries.  Nothing but the Add button and this
   effect makes the list longer. *)
C25_DefaultEntry ==
    [type |-> <<>>, symptoms |-> <<>>, doctor |-> <<>>, medication |-> <<>>,
     takingMedsAsPrescribed |-> FALSE, isManageable |-> FALSE]

C25_SwitchedToYes == ~draft.hasChronicIllness /\ draft'.hasChronicIllness

C25_AutoAppend ==
    step = "health"
        => /\ (C25_SwitchedToYes /\ Len(draft.chronicIllnesses) = 0)
                => draft'.chronicIllnesses = <<C25_DefaultEntry>>
           /\ (C25_SwitchedToYes /\ Len(draft.chronicIllnesses) > 0)
                => draft'.chronicIllnesses = draft.chronicIllnesses
           /\ Len(draft'.chronicIllnesses) > Len(draft.chronicIllnesses)
                => /\ Len(draft'.chronicIllnesses) = Len(draft.chronicIllnesses) + 1
                   /\ \/ last' = "append"
                      \/ C25_SwitchedToYes /\ Len(draft.chronicIllnesses) = 0

C25_AutoAppendOnlyIntoEmptyList == [][C25_AutoAppend]_vars

C25_Witness ==
    /\ step = "health"
    /\ last = "edit"
    /\ draft.hasChronicIllness
    /\ isSubmitted
    /\ Len(draft.chronicIllnesses) = 1
    /\ draft.chronicIllnesses[1].type = <<"a">>
    /\ draft.chronicIllnesses[1].isManageable
    /\ \E e \in errors : e.field = "symptoms"

-----------------------------------------------------------------------------
(* C26: in the health step, in every settled state hasChronicIllness = true
   implies that the chronic-illness list has at least one entry; a removal
   happens only while the list has more than one entry, so no removal by the
   user empties the list. *)
C26_YesHasAnEntry ==
    (step = "health" /\ draft.hasChronicIllness) => Len(draft.chronicIllnesses) >= 1

C26_RemovalLeavesAnEntry ==
    (step = "health" /\ last' = "remove")
        => /\ Len(draft.chronicIllnesses) > 1
           /\ Len(draft'.chronicIllnesses) = Len(draft.chronicIllnesses) - 1

C26_ListNeverEmptiedWhileYes == []C26_YesHasAnEntry /\ [][C26_RemovalLeavesAnEntry]_vars

C26_Witness ==
    /\ step = "health"
    /\ last = "remove"
    /\ draft.hasChronicIllness
    /\ Len(draft.chronicIllnesses) = 1
    /\ ~ENABLED (HealthNext /\ last' = "remove")

-----------------------------------------------------------------------------
(* C27: in the substance-use step with hasSubstanceHistory = 'Yes', a submit
   whose lastUseYear is non-empty but not exactly four characters long is
   blocked.
   This does not hold: the form validates through the schema resolver, which
   only asks for a non-blank year; the minLength and maxLength given to
   register are not applied. *)
C27_YearOfWrongLength ==
    /\ draft.hasSubstanceHistory = "Yes"
    /\ draft.lastUseYear # Undefined
    /\ Len(draft.lastUseYear) # 0
    /\ Len(draft.lastUseYear) # 4

C27_WrongLengthYearIsBlocked ==
    (step = "substance" /\ last = "submit" /\ C27_YearOfWrongLength)
        => (outcome = "invalid" /\ calls = <<>>)

-----------------------------------------------------------------------------
(* C28: in the criminal-history step, whenever updateData is called with
   hasCriminalOffense = 'Yes', the charges list of the slice passed is not
   empty and every charge in it has a non-empty personName, charge and
   outcome, and a non-empty probationOfficer if its areTheyOnProbation is
   'Yes'. *)
C28_UpdateCalledWithYes ==
    /\ step = "criminal"
    /\ "updateData" \in Range(calls)
    /\ Len(emitted) = 1
    /\ emitted[1].hasCriminalOffense = "Yes"

C28_EmittedChargesAreComplete ==
    C28_UpdateCalledWithYes
        => /\ Len(emitted[1].charges) >= 1
           /\ \A k \in 1..Len(emitted[1].charges) :
                  /\ Len(emitted[1].charges[k].personName) > 0
                  /\ Len(emitted[1].charges[k].charge) > 0
                  /\ Len(emitted[1].charges[k].outcome) > 0
                  /\ emitted[1].charges[k].areTheyOnProbation = "Yes"
                        => Len(emitted[1].charges[k].probationOfficer) > 0

C28_Witness ==
    /\ C28_UpdateCalledWithYes
    /\ Len(emitted[1].charges) = 2
    /\ emitted[1].charges[1].areTheyOnProbation = "Yes"
    /\ emitted[1].charges[1].probationOfficer # <<>>
    /\ emitted[1].charges[2].areTheyOnProbation = "No"
    /\ emitted[1].charges[2].probationOfficer = <<>>

-----------------------------------------------------------------------------
(* C29: in the criminal-history step, when hasCriminalOffense is 'No' at
   submit, the submit always succeeds, no charge field is validated, and the
   charges list passed to updateData is the list of the draft unchanged:
   charges added while the answer was 'Yes', also with empty required fields,
   are still emitted. *)
C29_SubmittedWithNo ==
    /\ step = "criminal"
    /\ last = "submit"
    /\ draft.hasCriminalOffense = "No"

C29_NoAlwaysSucceedsWithStaleCharges ==
    C29_SubmittedWithNo
        => /\ outcome = "valid"
           /\ errors = {}
           /\ calls = <<"updateData", "nextStep">>
           /\ Len(emitted) = 1
           /\ emitted[1].hasCriminalOffense = "No"
           /\ emitted[1].charges = draft.charges

C29_Witness ==
    /\ C29_SubmittedWithNo
    /\ outcome = "valid"
    /\ Len(defaults.charges) = 0
    /\ Len(emitted[1].charges) = 1
    /\ emitted[1].charges[1].personName = <<>>
    /\ emitted[1].charges[1].charge = <<"a">>

-----------------------------------------------------------------------------
(* C30: in the children step the living flag of every child entry is false in
   every reachable draft, so also in every submitted value: no action on the
   'Is the child living with you?' radio group changes the draft. *)
C30_LivingIsFalse ==
    step = "children" => \A i \in 1..Len(draft.children) : draft.children[i].living = FALSE

C30_RadioLeavesDraft == last' = "radio" => draft' = draft

C30_LivingNeverChanges == []C30_LivingIsFalse /\ [][C30_RadioLeavesDraft]_vars

C30_Witness ==
    /\ step = "children"
    /\ last = "radio"
    /\ Len(draft.children) = 2
    /\ draft.children[1].name = <<"a">>
    /\ draft.children[1].living = FALSE

-----------------------------------------------------------------------------
(* C21: every validation error is recoverable inside the step: from every
   reachable state of every step, also one in which a submit was just blocked,
   user actions of that step lead to a state in which a submit succeeds.
   The number of things that block a submit is the measure: while it is not
   zero some action of the step makes it smaller, and when it is zero the
   submit of the step succeeds. *)
C21_BlockersOf(d) ==
    CASE step = "criminal" ->
            Cardinality(CriminalValidate(d))
                + (IF d.hasCriminalOffense = "Yes" /\ Len(d.charges) = 0 THEN 1 ELSE 0)
      [] step = "substance" -> Cardinality(SubstanceValidate(d))
      [] step = "children"  -> Cardinality(ChildrenValidate(d))
      [] step = "financial" -> Cardinality(FinancialValidate(d))
      [] step = "health"    -> Cardinality(HealthValidate(d))

C21_Blockers == C21_BlockersOf(draft)

\* answering 'No', unchecking a source, retyping the total, resetting the form
C21_Repair ==
    \/ SetHasCriminalOffense("No")
    \/ \E name \in SubstanceRadios : SetSubstanceRadio(name, "No")
    \/ \E name \in incomeSources : ToggleSource(name)
    \/ \E v \in TotalIncomeTexts : EditTotalMonthlyIncome(v)
    \/ ResetForm

\* the drafts those actions can leave
C21_Repaired ==
    CASE step = "criminal"  -> {[draft EXCEPT !.hasCriminalOffense = "No"]}
      [] step = "substance" ->
            {SubstanceRegistered([draft EXCEPT ![name] = "No"]) : name \in SubstanceRadios}
      [] step = "financial" ->
            {FinancialRegistered([draft EXCEPT ![CheckedField(n)] = FALSE]) :
                n \in incomeSources}
                \cup {[draft EXCEPT !.totalMonthlyIncome = v] : v \in TotalIncomeTexts}
      [] OTHER -> {defaults}

C21_SubmitSucceeds ==
    /\ SubmitCriminal \/ SubmitSubstance \/ SubmitChildren \/ SubmitFinancial \/ SubmitHealth
    /\ outcome' = "valid"
    /\ calls' \in {<<"updateData", "nextStep">>, <<"toast">>}

C21_EveryErrorIsRecoverable ==
    IF C21_Blockers = 0
    THEN ENABLED C21_SubmitSucceeds
    ELSE \E d \in C21_Repaired :
            /\ C21_BlockersOf(d) < C21_Blockers
            /\ ENABLED (C21_Repair /\ draft' = d)

C21_Witness ==
    /\ step = "financial"
    /\ last = "submit"
    /\ outcome = "invalid"
    /\ C21_Blockers = 3
    /\ Cardinality(errors) = 3

====
